---- MODULE Spec2Model ----
(***************************************************************************)
(* Model of the regex pipeline of SK1PPR/grep:                             *)
(*   parse / postfix_generator   (src/regex/parser.rs)                     *)
(*   create_engine and the Thompson builders, RegexNFA::new and            *)
(*   RegexNFA::matches           (src/regex/nfa_regex.rs)                   *)
(*   Engine::compute             (src/regex/engine.rs)                     *)
(*   Matcher                     (src/regex/elements/matcher.rs)           *)
(* A pattern and a line are sequences of one-character strings.           *)
(***************************************************************************)
EXTENDS Integers, Sequences, FiniteSets, TLC

VARIABLES pattern, line, pc, tokens, postfix, regex, result, runs,
          compute_stack, popped, pushed_count, returned

vars == <<pattern, line, pc, tokens, postfix, regex, result, runs,
          compute_stack, popped, pushed_count, returned>>

\* the locals and the return value of one call of Engine::compute
sim == <<compute_stack, popped, pushed_count, returned>>

(***************************************************************************)
(* Bounds of the model.                                                    *)
(***************************************************************************)
MaxPatLen == 3
MaxLineLen == 3
MaxBodyLen == 3
MaxStack == 24

(***************************************************************************)
(* Characters.  CodeOrder lists the characters of the model in increasing  *)
(* code-point order; the last one stands for a character whose UTF-8       *)
(* encoding takes two bytes.                                               *)
(***************************************************************************)
CodeOrder ==
    << "$", "(", ")", "*", "+", "-", ".", "0", "9", "?", "A", "Z", "[", "\\",
       "]", "^", "_", "a", "b", "c", "d", "e", "s", "w", "z", "|", "E9" >>

Char == { CodeOrder[i] : i \in DOMAIN CodeOrder }

Ord(c) == CHOOSE i \in DOMAIN CodeOrder : CodeOrder[i] = c

CharRange(lo, hi) == { c \in Char : Ord(lo) <= Ord(c) /\ Ord(c) <= Ord(hi) }

len_utf8(c) == IF c = "E9" THEN 2 ELSE 1

RECURSIVE str_len(_)
str_len(s) == IF s = <<>> THEN 0 ELSE len_utf8(Head(s)) + str_len(Tail(s))

RECURSIVE SeqsOfLen(_, _)
SeqsOfLen(S, n) ==
    IF n = 0 THEN { <<>> }
    ELSE { <<c>> \o t : c \in S, t \in SeqsOfLen(S, n - 1) }

SeqsUpTo(S, n) == UNION { SeqsOfLen(S, k) : k \in 0..n }

(***************************************************************************)
(* Tokens (parser.rs, enum Token).  text carries the character of a        *)
(* Literal and the string of a ComplexLiteral, and is empty otherwise.     *)
(***************************************************************************)
Token(kind, text) == [kind |-> kind, text |-> text]

NoneToken == Token("None", <<>>)

OperatorKind(c) ==
    CASE c = "+" -> "Plus"
      [] c = "*" -> "Star"
      [] c = "?" -> "Question"
      [] c = "$" -> "EndRef"
      [] c = "^" -> "StartRef"
      [] c = "|" -> "Or"
      [] c = "(" -> "LBracket"
      [] c = ")" -> "RBracket"
      [] OTHER   -> "None"

Panic == [ok |-> FALSE, tokens |-> <<>>]

(***************************************************************************)
(* parse, first loop: the lexer.  i is the position of the next character, *)
(* current_token is NoneToken or the ComplexLiteral being accumulated.     *)
(***************************************************************************)
RECURSIVE lex(_, _, _, _)
lex(input, i, toks, current_token) ==
    IF i > Len(input) THEN [ok |-> TRUE, tokens |-> toks]
    ELSE
      LET c       == input[i]
          inClass == current_token.kind = "ComplexLiteral"
          pushed  == Token(current_token.kind, Append(current_token.text, c))
          \* the check at the end of each iteration of the while loop
          after(j, ts, cur) ==
              IF cur # NoneToken /\ j > Len(input) THEN Panic
              ELSE lex(input, j, ts, cur)
      IN  CASE c \in {"+", "*", "?", "$", "^", "|", "(", ")"} ->
                 IF inClass THEN after(i + 1, toks, pushed)
                 ELSE after(i + 1, Append(toks, Token(OperatorKind(c), <<>>)),
                            current_token)
            [] c = "[" ->
                 after(i + 1, toks, Token("ComplexLiteral", <<"[">>))
            [] c = "]" ->
                 IF inClass
                 THEN after(i + 1, Append(toks, pushed), NoneToken)
                 ELSE Panic
            [] c = "\\" ->
                 IF i + 1 <= Len(input)
                 THEN LET next_char == input[i + 1]
                      IN  IF next_char \in {"d", "w", "s"}
                          THEN after(i + 2,
                                     Append(toks, Token("ComplexLiteral",
                                                        <<"\\", next_char>>)),
                                     current_token)
                          ELSE after(i + 2,
                                     Append(toks, Token("Literal", <<next_char>>)),
                                     current_token)
                 ELSE Panic
            [] c = "." ->
                 IF inClass THEN after(i + 1, toks, pushed)
                 ELSE after(i + 1, Append(toks, Token("ComplexLiteral", <<".">>)),
                            current_token)
            [] OTHER ->
                 IF current_token = NoneToken
                 THEN after(i + 1, Append(toks, Token("Literal", <<c>>)),
                            current_token)
                 ELSE after(i + 1, toks, pushed)

needs_concat(prev, next) ==
    /\ prev.kind \in {"Literal", "ComplexLiteral", "RBracket", "Star", "Plus",
                      "Question"}
    /\ next.kind \in {"Literal", "ComplexLiteral", "LBracket"}

(***************************************************************************)
(* parse, second loop: the insertion of the Concat tokens.                 *)
(***************************************************************************)
RECURSIVE insert_concat(_, _)
insert_concat(toks, i) ==
    IF i > Len(toks) THEN <<>>
    ELSE IF i < Len(toks) /\ needs_concat(toks[i], toks[i + 1])
         THEN <<toks[i], Token("Concat", <<>>)>> \o insert_concat(toks, i + 1)
         ELSE <<toks[i]>> \o insert_concat(toks, i + 1)

parse(input) ==
    LET lexed == lex(input, 1, <<>>, NoneToken)
    IN  IF lexed.ok
        THEN [ok |-> TRUE, tokens |-> insert_concat(lexed.tokens, 1)]
        ELSE Panic

(***************************************************************************)
(* postfix_generator: the shunting-yard loop over the tokens that are not  *)
(* anchors.  The operator stack grows to the right (its top is its last    *)
(* element).                                                               *)
(***************************************************************************)
IsQuantifier(t) == t.kind \in {"Plus", "Star", "Question"}

TokenKinds ==
    {"Plus", "Star", "Question", "Literal", "EndRef", "StartRef", "ComplexLiteral",
     "LBracket", "RBracket", "Concat", "Or", "None"}

\* while let Some(top) = stack.last(): pop top to the output while its kind is
\* one of popKinds, stop at the first other token
RECURSIVE flush(_, _, _)
flush(output, stack, popKinds) ==
    IF stack # <<>> /\ stack[Len(stack)].kind \in popKinds
    THEN flush(Append(output, stack[Len(stack)]),
               SubSeq(stack, 1, Len(stack) - 1), popKinds)
    ELSE [output |-> output, stack |-> stack]

\* faulty variant: the operators left on the stack are appended bottom first
drain_bottom_first(output, stack) == output \o stack

RECURSIVE drain(_, _)
drain(output, stack) ==
    IF stack = <<>> THEN output
    ELSE drain(Append(output, stack[Len(stack)]), SubSeq(stack, 1, Len(stack) - 1))

RECURSIVE shunting_yard(_, _, _, _)
shunting_yard(toks, i, output, stack) ==
    IF i > Len(toks) THEN drain(output, stack)
    ELSE
      LET token == toks[i]
      IN  CASE token.kind \in {"Literal", "ComplexLiteral"} ->
                 shunting_yard(toks, i + 1, Append(output, token), stack)
            [] IsQuantifier(token) ->
                 shunting_yard(toks, i + 1, output, Append(stack, token))
            [] token.kind = "Concat" ->
                 LET f == flush(output, stack, {"Plus", "Star", "Question"})
                 IN  shunting_yard(toks, i + 1, f.output, Append(f.stack, token))
            [] token.kind = "Or" ->
                 LET f == flush(output, stack, TokenKinds \ {"LBracket", "RBracket"})
                 IN  shunting_yard(toks, i + 1, f.output, Append(f.stack, token))
            [] token.kind = "LBracket" ->
                 shunting_yard(toks, i + 1, output, Append(stack, token))
            [] token.kind = "RBracket" ->
                 LET f == flush(output, stack, TokenKinds \ {"LBracket"})
                 IN  shunting_yard(toks, i + 1, f.output,
                                   IF f.stack = <<>> THEN f.stack
                                   ELSE SubSeq(f.stack, 1, Len(f.stack) - 1))
            [] OTHER ->
                 shunting_yard(toks, i + 1, output, stack)

IsAnchor(t) == t.kind \in {"StartRef", "EndRef"}

NotAnchor(t) == ~IsAnchor(t)

Contains(toks, kind) == \E i \in DOMAIN toks : toks[i].kind = kind

\* the postfix output computed from the token stream parse returned
postfix_of(toks) ==
    LET parsed_tokens == SelectSeq(toks, NotAnchor)
        output        == shunting_yard(parsed_tokens, 1, <<>>, <<>>)
        head          == IF Contains(toks, "StartRef")
                         THEN <<Token("StartRef", <<>>)>> ELSE <<>>
        tail          == IF Contains(toks, "EndRef")
                         THEN <<Token("EndRef", <<>>)>> ELSE <<>>
    IN  head \o output \o tail

postfix_generator(input) ==
    LET p == parse(input)
    IN  IF p.ok THEN [ok |-> TRUE, tokens |-> postfix_of(p.tokens)] ELSE Panic

(***************************************************************************)
(* Matcher (matcher.rs).  A Range is a set of characters and a negation    *)
(* flag; Epsilon has eps = TRUE.                                           *)
(***************************************************************************)
Range(chars, negated) == [eps |-> FALSE, chars |-> chars, negated |-> negated]

Epsilon == [eps |-> TRUE, chars |-> {}, negated |-> FALSE]

is_epsilon(m) == m.eps

matcher_matches(m, c) ==
    IF m.eps THEN TRUE
    ELSE IF m.negated THEN c \notin m.chars ELSE c \in m.chars

create_alphanumeric ==
    Range(CharRange("a", "z") \cup CharRange("A", "Z") \cup CharRange("0", "9")
              \cup {"_"}, FALSE)

create_digit == Range(CharRange("0", "9"), FALSE)

\* no character of the model is a line feed or a carriage return
create_dot == Range(Char, FALSE)

create_simple_matcher(c) == Range({c}, FALSE)

\* inner.split('-'): the segments between the hyphens
RECURSIVE split_hyphen(_, _)
split_hyphen(s, current) ==
    IF s = <<>> THEN <<current>>
    ELSE IF Head(s) = "-" THEN <<current>> \o split_hyphen(Tail(s), <<>>)
         ELSE split_hyphen(Tail(s), Append(current, Head(s)))

NoMatcher == [ok |-> FALSE, matcher |-> Epsilon]

NUL == "NUL"

\* faulty variant: a range whose start lies after its end is not rejected
RECURSIVE class_chars_unchecked(_, _, _, _)
class_chars_unchecked(range_ends, i, chars, prev_char) ==
    IF i > Len(range_ends) THEN [ok |-> TRUE, chars |-> chars]
    ELSE
      LET range_end == range_ends[i]
      IN  IF range_end = <<>>
          THEN class_chars_unchecked(range_ends, i + 1, chars \cup {"-"}, "-")
          ELSE class_chars_unchecked(range_ends, i + 1,
                   chars
                     \cup (IF prev_char # NUL
                           THEN CharRange(prev_char, range_end[1]) ELSE {})
                     \cup { range_end[k] : k \in DOMAIN range_end },
                   range_end[Len(range_end)])

\* the loop over range_ends; prev_char is NUL until a character was seen
RECURSIVE class_chars(_, _, _, _)
class_chars(range_ends, i, chars, prev_char) ==
    IF i > Len(range_ends) THEN [ok |-> TRUE, chars |-> chars]
    ELSE
      LET range_end == range_ends[i]
      IN  IF range_end = <<>>
          THEN class_chars(range_ends, i + 1, chars \cup {"-"}, "-")
          ELSE IF prev_char # NUL /\ Ord(prev_char) > Ord(range_end[1])
               THEN [ok |-> FALSE, chars |-> {}]
               ELSE class_chars(range_ends, i + 1,
                        chars
                          \cup (IF prev_char # NUL
                                THEN CharRange(prev_char, range_end[1]) ELSE {})
                          \cup { range_end[k] : k \in DOMAIN range_end },
                        range_end[Len(range_end)])

\* faulty variant: the leading ^ is stripped but the class is not negated
bracket_matcher_not_negated(input) ==
    LET inner0 == SubSeq(input, 2, Len(input) - 1)
        inner  == IF inner0 # <<>> /\ inner0[1] = "^" THEN Tail(inner0) ELSE inner0
        r      == class_chars(split_hyphen(inner, <<>>), 1, {}, NUL)
    IN  IF inner = <<>> \/ ~r.ok THEN NoMatcher
        ELSE [ok |-> TRUE, matcher |-> Range(r.chars, FALSE)]

bracket_matcher(input) ==
    LET inner0 == SubSeq(input, 2, Len(input) - 1)
    IN  IF inner0 = <<>> THEN NoMatcher
        ELSE
          LET negated == inner0[1] = "^"
              inner   == IF negated THEN Tail(inner0) ELSE inner0
          IN  IF inner = <<>> THEN NoMatcher
              ELSE
                LET r == class_chars(split_hyphen(inner, <<>>), 1, {}, NUL)
                IN  IF r.ok
                    THEN [ok |-> TRUE, matcher |-> Range(r.chars, negated)]
                    ELSE NoMatcher

create_complex_matcher(input) ==
    CASE str_len(input) = 1 ->
           CASE input[1] = "." -> [ok |-> TRUE, matcher |-> create_dot]
             [] input[1] = "d" -> [ok |-> TRUE, matcher |-> create_digit]
             [] input[1] = "w" -> [ok |-> TRUE, matcher |-> create_alphanumeric]
             [] OTHER -> NoMatcher
      [] str_len(input) = 2 -> NoMatcher
      [] OTHER -> bracket_matcher(input)

(***************************************************************************)
(* State and Engine (state.rs, engine.rs).  An Engine is a sequence of     *)
(* states, each with its id and its ordered transitions, and the ids of    *)
(* the start and end states.                                               *)
(***************************************************************************)
State(id) == [id |-> id, transitions |-> <<>>]

Transition(m, to) == [m |-> m, to |-> to]

EmptyEngine == [states |-> <<>>, start_state |-> 0, end_state |-> 0]

\* the index of the first state whose id is id, 0 when there is none
find_state(states, id) ==
    IF \E k \in DOMAIN states : states[k].id = id
    THEN CHOOSE k \in DOMAIN states :
             /\ states[k].id = id
             /\ \A j \in 1..(k - 1) : states[j].id # id
    ELSE 0

add_transition(engine, from_state, matcher, to_state) ==
    LET k == find_state(engine.states, from_state)
    IN  IF k = 0 THEN engine
        ELSE [engine EXCEPT !.states[k].transitions =
                                Append(@, Transition(matcher, to_state))]

\* faulty variant: the targets are shifted, the id of the state is not
state_shift_ids_targets_only(state, shift) ==
    [id          |-> state.id,
     transitions |-> [k \in DOMAIN state.transitions |->
                         Transition(state.transitions[k].m,
                                    state.transitions[k].to + shift)]]

state_shift_ids(state, shift) ==
    [id          |-> state.id + shift,
     transitions |-> [k \in DOMAIN state.transitions |->
                         Transition(state.transitions[k].m,
                                    state.transitions[k].to + shift)]]

shift_ids(engine, shift) ==
    [states      |-> [k \in DOMAIN engine.states |->
                         state_shift_ids(engine.states[k], shift)],
     start_state |-> engine.start_state + shift,
     end_state   |-> engine.end_state + shift]

(***************************************************************************)
(* The Thompson builders (nfa_regex.rs).                                   *)
(***************************************************************************)
one_step_nfa(matcher) ==
    [states      |-> << [id |-> 0, transitions |-> <<Transition(matcher, 1)>>],
                        State(1) >>,
     start_state |-> 0,
     end_state   |-> 1]

literal_nfa(c) == one_step_nfa(create_simple_matcher(c))

\* the states of left, the shifted states of right, and the new start and end
merged(left, right, start_state_id, end_state_id) ==
    [states      |-> left.states \o right.states
                       \o <<State(start_state_id), State(end_state_id)>>,
     start_state |-> start_state_id,
     end_state   |-> end_state_id]

union_nfa(left, right0) ==
    LET start_state_id == Len(left.states) + Len(right0.states)
        end_state_id   == start_state_id + 1
        right          == shift_ids(right0, Len(left.states))
        e0 == merged(left, right, start_state_id, end_state_id)
        e1 == add_transition(e0, start_state_id, Epsilon, left.start_state)
        e2 == add_transition(e1, start_state_id, Epsilon, right.start_state)
        e3 == add_transition(e2, left.end_state, Epsilon, end_state_id)
    IN  add_transition(e3, right.end_state, Epsilon, end_state_id)

\* faulty variant: the last transition is added from the new end state to the
\* end state of right, its two ends swapped
concat_nfa_end_linked(left, right0) ==
    LET start_state_id == Len(left.states) + Len(right0.states)
        end_state_id   == start_state_id + 1
        right          == shift_ids(right0, Len(left.states))
        e0 == merged(left, right, start_state_id, end_state_id)
        e1 == add_transition(e0, left.end_state, Epsilon, right.start_state)
        e2 == add_transition(e1, start_state_id, Epsilon, left.start_state)
    IN  add_transition(e2, end_state_id, Epsilon, right.end_state)

concat_nfa(left, right0) ==
    LET start_state_id == Len(left.states) + Len(right0.states)
        end_state_id   == start_state_id + 1
        right          == shift_ids(right0, Len(left.states))
        e0 == merged(left, right, start_state_id, end_state_id)
        e1 == add_transition(e0, left.end_state, Epsilon, right.start_state)
        e2 == add_transition(e1, start_state_id, Epsilon, left.start_state)
    IN  add_transition(e2, right.end_state, Epsilon, end_state_id)

\* add the transitions <<from, to>> of ts, in order, all of them Epsilon
RECURSIVE add_epsilons(_, _)
add_epsilons(engine, ts) ==
    IF ts = <<>> THEN engine
    ELSE add_epsilons(add_transition(engine, Head(ts)[1], Epsilon, Head(ts)[2]),
                      Tail(ts))

\* the engine with the two new states ns and ne, before its new transitions
wrapped(engine) ==
    [states      |-> engine.states
                       \o <<State(Len(engine.states)), State(Len(engine.states) + 1)>>,
     start_state |-> Len(engine.states),
     end_state   |-> Len(engine.states) + 1]

\* the epsilon transitions <<from, to>> of a quantifier, in the order added
quantifier_transitions(engine, lazy, quantifier) ==
    LET ns == Len(engine.states)
        ne == ns + 1
        is == engine.start_state
        ie == engine.end_state
    IN  CASE quantifier = "Star" ->
               IF lazy
               THEN << <<ns, is>>, <<ns, ne>>, <<ie, ns>>, <<ie, ne>> >>
               ELSE << <<ns, ne>>, <<ns, is>>, <<ie, ne>>, <<ie, ns>> >>
          [] quantifier = "Question" ->
               IF lazy
               THEN << <<ns, ne>>, <<ns, is>>, <<ie, ne>> >>
               ELSE << <<ns, is>>, <<ns, ne>>, <<ie, ne>> >>
          [] quantifier = "Plus" ->
               IF lazy
               THEN << <<ie, ne>>, <<ie, ns>>, <<ns, is>> >>
               ELSE << <<ie, ns>>, <<ie, ne>>, <<ns, is>> >>

\* faulty variant: Plus is built with the transitions of Star
special_nfa_quantifier_plus_as_star(engine, lazy, quantifier) ==
    add_epsilons(wrapped(engine),
                 quantifier_transitions(engine, lazy,
                     IF quantifier = "Plus" THEN "Star" ELSE quantifier))

special_nfa_quantifier(engine, lazy, quantifier) ==
    add_epsilons(wrapped(engine), quantifier_transitions(engine, lazy, quantifier))

NoEngine == [ok |-> FALSE, engine |-> EmptyEngine]

\* the quantifier a lazy-fused token pair builds: Question followed by
\* Question builds Quantifier::Plus (nfa_regex.rs line 108)
lazy_quantifier(kind) == IF kind = "Star" THEN "Star" ELSE "Plus"

(***************************************************************************)
(* create_engine: the loop over the postfix tokens with the engine stack   *)
(* (its top is its last element).  A failed expect, an unexpected token, a *)
(* panicking create_complex_matcher and the final assert_eq all abort.     *)
(***************************************************************************)
RECURSIVE build(_, _, _)
build(toks, i, engine_stack) ==
    IF i > Len(toks)
    THEN IF Len(engine_stack) = 1
         THEN [ok |-> TRUE, engine |-> engine_stack[1]]
         ELSE NoEngine
    ELSE
      LET token == toks[i]
          n     == Len(engine_stack)
          top   == engine_stack[n]
          rest1 == SubSeq(engine_stack, 1, n - 1)
          rest2 == SubSeq(engine_stack, 1, n - 2)
      IN  CASE token.kind = "Literal" ->
                 build(toks, i + 1, Append(engine_stack, literal_nfa(token.text[1])))
            [] token.kind = "ComplexLiteral" ->
                 LET m == create_complex_matcher(token.text)
                 IN  IF m.ok
                     THEN build(toks, i + 1,
                                Append(engine_stack, one_step_nfa(m.matcher)))
                     ELSE NoEngine
            [] IsQuantifier(token) ->
                 IF i < Len(toks) /\ toks[i + 1].kind = "Question"
                 THEN IF n = 0 THEN NoEngine
                      ELSE build(toks, i + 2,
                                 Append(rest1,
                                        special_nfa_quantifier(top, TRUE,
                                            lazy_quantifier(token.kind))))
                 ELSE IF n = 0 THEN NoEngine
                      ELSE build(toks, i + 1,
                                 Append(rest1,
                                        special_nfa_quantifier(top, FALSE,
                                                               token.kind)))
            [] token.kind = "Or" ->
                 IF n < 2 THEN NoEngine
                 ELSE build(toks, i + 1,
                            Append(rest2, union_nfa(engine_stack[n - 1], top)))
            [] token.kind = "Concat" ->
                 IF n < 2 THEN NoEngine
                 ELSE build(toks, i + 1,
                            Append(rest2, concat_nfa(engine_stack[n - 1], top)))
            [] IsAnchor(token) ->
                 build(toks, i + 1, engine_stack)
            [] OTHER -> NoEngine

create_engine(toks) == build(toks, 1, <<>>)

(***************************************************************************)
(* Engine::compute.  The stack holds configurations <<state id, input      *)
(* index, memory>>, its top is its last element; input_index counts        *)
(* characters from 0.                                                      *)
(***************************************************************************)
Config(state, input_index, memory) ==
    [state |-> state, input_index |-> input_index, memory |-> memory]

NoConfig == Config(-1, 0, <<>>)

InMemory(memory, id) == \E k \in DOMAIN memory : memory[k] = id

\* faulty variant: no memory of the states entered since the last consumed
\* character is kept or consulted
RECURSIVE push_transitions_unguarded(_, _, _, _, _)
push_transitions_unguarded(transitions, k, stack, cfg, input) ==
    IF k = 0 THEN stack
    ELSE
      LET t      == transitions[k]
          at_end == cfg.input_index >= Len(input)
          eligible ==
              IF at_end THEN is_epsilon(t.m)
              ELSE matcher_matches(t.m, input[cfg.input_index + 1])
      IN  IF ~eligible
          THEN push_transitions_unguarded(transitions, k - 1, stack, cfg, input)
          ELSE push_transitions_unguarded(transitions, k - 1,
                   Append(stack,
                          Config(t.to,
                                 IF is_epsilon(t.m) THEN cfg.input_index
                                 ELSE cfg.input_index + 1,
                                 <<>>)),
                   cfg, input)

\* faulty variant: a consuming transition keeps the memory of the configuration
RECURSIVE push_transitions_keep_memory(_, _, _, _, _)
push_transitions_keep_memory(transitions, k, stack, cfg, input) ==
    IF k = 0 THEN stack
    ELSE
      LET t      == transitions[k]
          at_end == cfg.input_index >= Len(input)
          eligible ==
              /\ IF at_end THEN is_epsilon(t.m)
                 ELSE matcher_matches(t.m, input[cfg.input_index + 1])
              /\ is_epsilon(t.m) => ~InMemory(cfg.memory, t.to)
      IN  IF ~eligible
          THEN push_transitions_keep_memory(transitions, k - 1, stack, cfg, input)
          ELSE push_transitions_keep_memory(transitions, k - 1,
                   Append(stack,
                          IF is_epsilon(t.m)
                          THEN Config(t.to, cfg.input_index, Append(cfg.memory, t.to))
                          ELSE Config(t.to, cfg.input_index + 1, cfg.memory)),
                   cfg, input)

\* faulty variant: the transitions are taken in insertion order, without rev()
RECURSIVE push_transitions_in_order(_, _, _, _, _)
push_transitions_in_order(transitions, k, stack, cfg, input) ==
    IF k = 0 THEN stack
    ELSE
      LET t      == transitions[Len(transitions) - k + 1]
          at_end == cfg.input_index >= Len(input)
          eligible ==
              /\ IF at_end THEN is_epsilon(t.m)
                 ELSE matcher_matches(t.m, input[cfg.input_index + 1])
              /\ is_epsilon(t.m) => ~InMemory(cfg.memory, t.to)
      IN  IF ~eligible
          THEN push_transitions_in_order(transitions, k - 1, stack, cfg, input)
          ELSE push_transitions_in_order(transitions, k - 1,
                   Append(stack,
                          IF is_epsilon(t.m)
                          THEN Config(t.to, cfg.input_index, Append(cfg.memory, t.to))
                          ELSE Config(t.to, cfg.input_index + 1, <<>>)),
                   cfg, input)

\* the for loop over state.transitions.iter().rev(): k runs from the last
\* transition down to the first, each eligible one is pushed in that order
RECURSIVE push_transitions(_, _, _, _, _)
push_transitions(transitions, k, stack, cfg, input) ==
    IF k = 0 THEN stack
    ELSE
      LET t      == transitions[k]
          at_end == cfg.input_index >= Len(input)
          eligible ==
              IF at_end THEN is_epsilon(t.m)
              ELSE matcher_matches(t.m, input[cfg.input_index + 1])
      IN  IF ~eligible
          THEN push_transitions(transitions, k - 1, stack, cfg, input)
          ELSE IF is_epsilon(t.m)
               THEN IF InMemory(cfg.memory, t.to)
                    THEN push_transitions(transitions, k - 1, stack, cfg, input)
                    ELSE push_transitions(transitions, k - 1,
                             Append(stack,
                                    Config(t.to, cfg.input_index,
                                           Append(cfg.memory, t.to))),
                             cfg, input)
               ELSE push_transitions(transitions, k - 1,
                        Append(stack, Config(t.to, cfg.input_index + 1, <<>>)),
                        cfg, input)

\* one iteration of the while loop: pop, test for the end state, expand
compute_step(engine, input, stack) ==
    LET cfg  == stack[Len(stack)]
        rest == SubSeq(stack, 1, Len(stack) - 1)
        k    == find_state(engine.states, cfg.state)
    IN  IF cfg.state = engine.end_state
        THEN [done |-> TRUE, value |-> cfg.input_index, stack |-> rest]
        ELSE [done  |-> FALSE,
              value |-> -1,
              stack |-> IF k = 0 THEN rest
                        ELSE push_transitions(engine.states[k].transitions,
                                 Len(engine.states[k].transitions), rest, cfg,
                                 input)]

RECURSIVE compute_loop(_, _, _)
compute_loop(engine, input, stack) ==
    IF stack = <<>> THEN -1
    ELSE LET r == compute_step(engine, input, stack)
         IN  IF r.done THEN r.value ELSE compute_loop(engine, input, r.stack)

compute(engine, input) ==
    compute_loop(engine, input, <<Config(engine.start_state, 0, <<>>)>>)

(***************************************************************************)
(* RegexNFA (nfa_regex.rs).                                                *)
(***************************************************************************)
NoRegex == [engine |-> EmptyEngine, starts_with |-> FALSE, ends_with |-> FALSE]

\* the fields RegexNFA::new sets from the postfix tokens and their engine
new_regex(toks, engine) ==
    [engine      |-> engine,
     starts_with |-> toks # <<>> /\ toks[1].kind = "StartRef",
     ends_with   |-> toks # <<>> /\ toks[Len(toks)].kind = "EndRef"]

\* input.chars().skip(i).take(input.len() - i)
skip_take(input, i) ==
    IF i >= Len(input) THEN <<>>
    ELSE SubSeq(input, i + 1,
                IF Len(input) < i + (str_len(input) - i)
                THEN Len(input) ELSE i + (str_len(input) - i))

\* for i in 0..input.len(): the first offset whose slice computes to a
\* non-negative index decides; runs counts the calls of compute
RECURSIVE slide(_, _, _)
slide(r, input, i) ==
    IF i >= str_len(input) THEN [result |-> FALSE, runs |-> i]
    ELSE LET index == compute(r.engine, skip_take(input, i))
         IN  IF index >= 0
             THEN [result |-> IF r.ends_with
                              THEN index + i = str_len(input) ELSE TRUE,
                   runs   |-> i + 1]
             ELSE slide(r, input, i + 1)

\* faulty variant: the leading anchor is not looked at, every offset is tried
matches_unanchored(r, input) ==
    IF input = <<>>
    THEN [result |-> compute(r.engine, input) # -1, runs |-> 1]
    ELSE slide(r, input, 0)

matches(r, input) ==
    IF input = <<>>
    THEN [result |-> compute(r.engine, input) # -1, runs |-> 1]
    ELSE IF r.starts_with
         THEN LET index == compute(r.engine, input)
              IN  [result |-> IF index >= 0
                              THEN IF r.ends_with THEN index = str_len(input)
                                   ELSE TRUE
                              ELSE FALSE,
                   runs   |-> 1]
         ELSE slide(r, input, 0)

(***************************************************************************)
(* The program: match_pattern (main.rs) compiles the pattern with          *)
(* RegexNFA::new and matches one line.  pc is the stage reached; a panic   *)
(* in any stage ends the run in pc = "panic".                              *)
(***************************************************************************)
LineChar == {"a", "b", "E9"}

Lines == SeqsUpTo(LineChar, MaxLineLen)

InitWith(patterns, lines) ==
    /\ pattern \in patterns
    /\ line \in lines
    /\ pc = "parse"
    /\ tokens = <<>>
    /\ postfix = <<>>
    /\ regex = NoRegex
    /\ result = FALSE
    /\ runs = 0
    /\ compute_stack = <<>>
    /\ popped = NoConfig
    /\ pushed_count = 0
    /\ returned = -1

\* postfix_generator, its call of parse
Parse ==
    /\ pc = "parse"
    /\ LET p == parse(pattern)
       IN  IF p.ok
           THEN /\ tokens' = p.tokens
                /\ pc' = "postfix"
           ELSE /\ tokens' = tokens
                /\ pc' = "panic"
    /\ UNCHANGED <<pattern, line, postfix, regex, result, runs>>
    /\ UNCHANGED sim

\* postfix_generator, from the parsed tokens to the postfix output
PostfixGenerator ==
    /\ pc = "postfix"
    /\ postfix' = postfix_of(tokens)
    /\ pc' = "create_engine"
    /\ UNCHANGED <<pattern, line, tokens, regex, result, runs>>
    /\ UNCHANGED sim

\* RegexNFA::new, from the postfix tokens on
New ==
    /\ pc = "create_engine"
    /\ LET e == create_engine(postfix)
       IN  IF e.ok
           THEN /\ regex' = new_regex(postfix, e.engine)
                /\ pc' = "matches"
           ELSE /\ regex' = regex
                /\ pc' = "panic"
    /\ UNCHANGED <<pattern, line, tokens, postfix, result, runs>>
    /\ UNCHANGED sim

\* RegexNFA::matches
Matches ==
    /\ pc = "matches"
    /\ LET m == matches(regex, line)
       IN  /\ result' = m.result
           /\ runs' = m.runs
    /\ pc' = "done"
    /\ UNCHANGED <<pattern, line, tokens, postfix, regex>>
    /\ UNCHANGED sim

Next == Parse \/ PostfixGenerator \/ New \/ Matches

\* RegexNFA::new as one function of the pattern
RegexNFA_new(p) ==
    LET pf == postfix_generator(p)
        e  == create_engine(pf.tokens)
    IN  IF pf.ok /\ e.ok
        THEN [ok |-> TRUE, regex |-> new_regex(pf.tokens, e.engine)]
        ELSE [ok |-> FALSE, regex |-> NoRegex]

\* match_pattern (main.rs) as one function of the line and the pattern
match_pattern(input_line, p) ==
    LET r == RegexNFA_new(p)
    IN  IF r.ok
        THEN [ok |-> TRUE, result |-> matches(r.regex, input_line).result]
        ELSE [ok |-> FALSE, result |-> FALSE]

(***************************************************************************)
(* The specifications: the same program run on different sets of patterns  *)
(* and lines.                                                              *)
(***************************************************************************)
\* strings of literal characters
LiteralPatterns == SeqsUpTo({"a", "b"}, MaxPatLen)

InitLiteral == InitWith(LiteralPatterns, Lines)

SpecLiteral == InitLiteral /\ [][Next]_vars

\* literals, the star and the two anchors
AnchorPatterns == SeqsUpTo({"a", "b", "*", "^", "$"}, MaxPatLen)

InitAnchor == InitWith(AnchorPatterns, Lines)

SpecAnchor == InitAnchor /\ [][Next]_vars

\* literals and the three quantifiers
QuantPatterns == SeqsUpTo({"a", "b", "*", "+", "?"}, MaxPatLen)

InitQuant == InitWith(QuantPatterns, Lines)

SpecQuant == InitQuant /\ [][Next]_vars

\* the backslash and the letters of the escapes \d and \w
EscapePatterns == SeqsUpTo({"\\", "d", "w"}, MaxPatLen)

EscapeLines == SeqsUpTo({"0", "_", "-"}, MaxLineLen)

InitEscape == InitWith(EscapePatterns, EscapeLines)

SpecEscape == InitEscape /\ [][Next]_vars

\* a literal, the grouping brackets and the alternation
GroupPatterns == SeqsUpTo({"a", "(", ")", "|"}, MaxPatLen)

InitGroup == InitWith(GroupPatterns, Lines)

SpecGroup == InitGroup /\ [][Next]_vars

\* one character class, closed or not, after an optional literal and before
\* an optional literal or a lone backslash
ClassBodies == SeqsUpTo({"a", "z", "-", "^"}, MaxBodyLen)

ClassPatterns ==
    { pre \o <<"[">> \o body \o close \o post :
        pre \in {<<>>, <<"a">>},
        body \in ClassBodies,
        close \in {<<>>, <<"]">>},
        post \in {<<>>, <<"a">>, <<"\\">>} }

ClassLines == SeqsUpTo({"a", "-"}, MaxLineLen)

InitClass == InitWith(ClassPatterns, ClassLines)

SpecClass == InitClass /\ [][Next]_vars

Spec == SpecLiteral

(***************************************************************************)
(* Reference notions the properties are stated with.                       *)
(***************************************************************************)
Compiled == pc \in {"matches", "done"}

\* s is a contiguous substring of x
Substring(s, x) ==
    \E i \in 0..(Len(x) - Len(s)) : SubSeq(x, i + 1, i + Len(s)) = s

Occurs(c, x) == \E k \in DOMAIN x : x[k] = c

Suffix(x, i) == SubSeq(x, i + 1, Len(x))

Prefix(x, k) == SubSeq(x, 1, k)

\* Standard NFA semantics of an Engine: the set of states reachable by
\* epsilon moves, the move on one character, and acceptance of a word.
TransitionsOf(engine, id) ==
    LET k == find_state(engine.states, id)
    IN  IF k = 0 THEN {}
        ELSE { engine.states[k].transitions[j] :
                 j \in DOMAIN engine.states[k].transitions }

RECURSIVE EpsilonClosure(_, _)
EpsilonClosure(engine, S) ==
    LET T == S \cup { t.to : t \in { u \in UNION { TransitionsOf(engine, q) : q \in S } :
                                       u.m.eps } }
    IN  IF T = S THEN S ELSE EpsilonClosure(engine, T)

Move(engine, S, c) ==
    { t.to : t \in { u \in UNION { TransitionsOf(engine, q) : q \in S } :
                       ~u.m.eps /\ ((c \in u.m.chars) # u.m.negated) } }

RECURSIVE Reach(_, _, _)
Reach(engine, S, w) ==
    IF w = <<>> THEN S
    ELSE Reach(engine, EpsilonClosure(engine, Move(engine, S, Head(w))), Tail(w))

Accepts(engine, w) ==
    engine.end_state
        \in Reach(engine, EpsilonClosure(engine, {engine.start_state}), w)

Literals == {"a", "b"}

\* the pattern is ^ body, ^ body $ or body $ with no anchor inside body
AnchorsAtEnds(p, lead, trail) ==
    /\ Len(p) >= 1
    /\ (p[1] = "^") = lead
    /\ (p[Len(p)] = "$") = trail
    /\ \A k \in DOMAIN p :
          /\ p[k] = "^" => k = 1
          /\ p[k] = "$" => k = Len(p)

(***************************************************************************)
(* C1: for every string s of non-special characters and every line x,      *)
(* RegexNFA::new(s) compiles and matches(x) is true iff s is a contiguous  *)
(* substring of x.                                                         *)
(***************************************************************************)
C1_LiteralIsSubstring ==
    (\A k \in DOMAIN pattern : pattern[k] \in Literals) =>
        /\ pc # "panic"
        /\ pc = "done" => (result <=> Substring(pattern, line))

\* the part of the substring property that holds: the non-empty strings
LiteralNonEmptyIsSubstring ==
    (pattern # <<>> /\ \A k \in DOMAIN pattern : pattern[k] \in Literals) =>
        /\ pc # "panic"
        /\ pc = "done" => (result <=> Substring(pattern, line))

(***************************************************************************)
(* C2: for a pattern with a trailing $, matches on a non-empty line is     *)
(* true iff some substring of the line that the pattern body accepts ends  *)
(* exactly at the end of the line (and starts at offset 0 when the pattern *)
(* also has a leading ^).                                                  *)
(***************************************************************************)
C2_EndAnchor ==
    (/\ pc = "done"
     /\ line # <<>>
     /\ \E lead \in BOOLEAN : AnchorsAtEnds(pattern, lead, TRUE)) =>
        (result <=>
            \E i \in (IF pattern[1] = "^" THEN {0} ELSE 0..Len(line)) :
                Accepts(regex.engine, Suffix(line, i)))

(***************************************************************************)
(* C3: for a pattern with a leading ^ and no $, matches on a non-empty     *)
(* line is true iff the pattern body accepts some prefix of the line; the  *)
(* simulator is run exactly once, so no later start offset makes the       *)
(* result true.                                                            *)
(***************************************************************************)
C3_StartAnchor ==
    (/\ pc = "done"
     /\ line # <<>>
     /\ AnchorsAtEnds(pattern, TRUE, FALSE)) =>
        /\ result <=> \E k \in 0..Len(line) : Accepts(regex.engine, Prefix(line, k))
        /\ runs = 1

\* ^a on the line ba: the body matches at offset 1 only, the result is false
C3_Witness ==
    /\ pc = "done"
    /\ pattern = <<"^", "a">>
    /\ line = <<"b", "a">>
    /\ ~result
    /\ runs = 1

(***************************************************************************)
(* C4: for a literal X and q one of * + ?, the pattern X q ? compiles and  *)
(* accepts exactly the lines that X q accepts.                             *)
(***************************************************************************)
C4_LazySameLines ==
    (/\ Len(pattern) = 3
     /\ pattern[1] \in Literals
     /\ pattern[2] \in {"*", "+", "?"}
     /\ pattern[3] = "?") =>
        /\ pc # "panic"
        /\ pc = "done" =>
              result = match_pattern(line, <<pattern[1], pattern[2]>>).result

(***************************************************************************)
(* C5: the patterns \d and \w compile, and match a line iff the line       *)
(* contains a digit (\d) or a letter, a digit or an underscore (\w).       *)
(***************************************************************************)
C5_DigitAndWordEscapes ==
    /\ pattern = <<"\\", "d">> =>
          /\ pc # "panic"
          /\ pc = "done" =>
                (result <=> \E k \in DOMAIN line : line[k] \in CharRange("0", "9"))
    /\ pattern = <<"\\", "w">> =>
          /\ pc # "panic"
          /\ pc = "done" =>
                (result <=>
                    \E k \in DOMAIN line :
                        line[k] \in CharRange("a", "z") \cup CharRange("A", "Z")
                                      \cup CharRange("0", "9") \cup {"_"})

(***************************************************************************)
(* C6: for a literal c, the patterns c* and c? compile and match every     *)
(* line, the empty line too; c+ compiles and matches a line iff the line   *)
(* contains c.                                                             *)
(***************************************************************************)
C6_Quantifiers ==
    (Len(pattern) = 2 /\ pattern[1] \in Literals) =>
        /\ pattern[2] \in {"*", "?"} =>
              /\ pc # "panic"
              /\ pc = "done" => result
        /\ pattern[2] = "+" =>
              /\ pc # "panic"
              /\ pc = "done" => (result <=> Occurs(pattern[1], line))

\* a+ on the empty line does not match
C6_Witness ==
    /\ pc = "done"
    /\ pattern = <<"a", "+">>
    /\ line = <<>>
    /\ ~result

(***************************************************************************)
(* C7: an anchor that is not at the first or last position is ignored:     *)
(* x ^ y and x $ y compile and match exactly the lines that x y matches.   *)
(***************************************************************************)
C7_MisplacedAnchorIgnored ==
    (/\ Len(pattern) = 3
     /\ pattern[1] \in Literals
     /\ pattern[2] \in {"^", "$"}
     /\ pattern[3] \in Literals) =>
        /\ pc # "panic"
        /\ pc = "done" =>
              result = match_pattern(line, <<pattern[1], pattern[3]>>).result

(***************************************************************************)
(* C8: for every supported pattern the postfix output, evaluated as a      *)
(* stack machine (operands push, quantifiers pop one and push one, Concat  *)
(* and Or pop two and push one, anchors are skipped), never underflows and *)
(* ends with exactly one operand, and create_engine does not abort.        *)
(***************************************************************************)
\* the depth of the operand stack after the tokens from i on, -1 on underflow
RECURSIVE StackDepth(_, _, _)
StackDepth(toks, i, depth) ==
    IF i > Len(toks) THEN depth
    ELSE CASE toks[i].kind \in {"Literal", "ComplexLiteral"} ->
                StackDepth(toks, i + 1, depth + 1)
           [] IsQuantifier(toks[i]) ->
                IF depth < 1 THEN -1 ELSE StackDepth(toks, i + 1, depth)
           [] toks[i].kind \in {"Concat", "Or"} ->
                IF depth < 2 THEN -1 ELSE StackDepth(toks, i + 1, depth - 1)
           [] OTHER -> StackDepth(toks, i + 1, depth)

\* patterns of literals, stars and anchors in which every star follows a
\* literal: all of them are patterns of the dialect
Supported(p) ==
    /\ \E k \in DOMAIN p : p[k] \in Literals
    /\ \A k \in DOMAIN p :
          /\ p[k] \in Literals \cup {"*", "^", "$"}
          /\ p[k] = "*" => (k > 1 /\ p[k - 1] \in Literals)

C8_PostfixBalanced ==
    Supported(pattern) =>
        /\ pc \in {"create_engine", "matches", "done"} =>
              StackDepth(postfix, 1, 0) = 1
        /\ pc # "panic"

(***************************************************************************)
(* C9: a pattern with an unmatched grouping bracket, a ) with no open ( or *)
(* a ( that is never closed, does not compile: no Matcher is produced.     *)
(***************************************************************************)
\* the nesting depth after the characters from i on, -1 once a ) closes nothing
RECURSIVE BracketDepth(_, _, _)
BracketDepth(p, i, depth) ==
    IF i > Len(p) THEN depth
    ELSE CASE p[i] = "(" -> BracketDepth(p, i + 1, depth + 1)
           [] p[i] = ")" ->
                IF depth = 0 THEN -1 ELSE BracketDepth(p, i + 1, depth - 1)
           [] OTHER -> BracketDepth(p, i + 1, depth)

C9_UnmatchedBracketAborts ==
    BracketDepth(pattern, 1, 0) # 0 => (~Compiled /\ regex = NoRegex)

(***************************************************************************)
(* C10: a pattern with an unterminated character class, an empty class     *)
(* body ([] or [^]), a trailing lone backslash or a descending range in a  *)
(* class does not compile: compilation aborts and no Matcher is produced.  *)
(***************************************************************************)
UnterminatedClass(p) ==
    \E i \in DOMAIN p : p[i] = "[" /\ \A j \in (i + 1)..Len(p) : p[j] # "]"

EmptyClass(p) ==
    \E i \in DOMAIN p :
        /\ p[i] = "["
        /\ \/ (i + 1 <= Len(p) /\ p[i + 1] = "]")
           \/ (i + 2 <= Len(p) /\ p[i + 1] = "^" /\ p[i + 2] = "]")

TrailingBackslash(p) ==
    /\ Len(p) >= 1
    /\ p[Len(p)] = "\\"
    /\ (Len(p) >= 2 => p[Len(p) - 1] # "\\")

\* x - y inside the class with x after y in code-point order, x and y no
\* hyphens and x not the ^ that negates the class
DescendingRange(p) ==
    \E i \in DOMAIN p :
        /\ p[i] = "["
        /\ \E k \in (i + 1)..(Len(p) - 3) :
              /\ \A j \in (i + 1)..(k + 3) : p[j] # "]" \/ j = k + 3
              /\ \E j \in (k + 3)..Len(p) : p[j] = "]"
              /\ p[k] # "-" /\ p[k + 1] = "-" /\ p[k + 2] # "-"
              /\ p[k + 2] # "]"
              /\ ~(k = i + 1 /\ p[k] = "^")
              /\ Ord(p[k]) > Ord(p[k + 2])

C10_BadClassAborts ==
    (\/ UnterminatedClass(pattern)
     \/ EmptyClass(pattern)
     \/ TrailingBackslash(pattern)
     \/ DescendingRange(pattern)) =>
        (~Compiled /\ regex = NoRegex /\ ~RegexNFA_new(pattern).ok)

\* [z-a] is lexed as one class and aborts in the class compiler
C10_Witness ==
    /\ pc = "panic"
    /\ pattern = <<"[", "z", "-", "a", "]">>
    /\ tokens = <<Token("ComplexLiteral", pattern)>>
    /\ DescendingRange(pattern)

(***************************************************************************)
(* C11: for a bracket class whose body is a sequence of single non-hyphen  *)
(* characters and ranges x-y with x <= y, the compiled predicate accepts a *)
(* character c iff (c is listed or lies in one of the ranges) XOR the      *)
(* class starts with ^.                                                    *)
(***************************************************************************)
\* b is a sequence of items, each a non-hyphen character or a range x-y
RECURSIVE ItemBody(_)
ItemBody(b) ==
    IF b = <<>> THEN TRUE
    ELSE /\ b[1] # "-"
         /\ IF Len(b) >= 2 /\ b[2] = "-"
            THEN /\ Len(b) >= 3
                 /\ b[3] # "-"
                 /\ Ord(b[1]) <= Ord(b[3])
                 /\ ItemBody(SubSeq(b, 4, Len(b)))
            ELSE ItemBody(Tail(b))

\* c is one of the characters or lies in one of the ranges of the items of b
RECURSIVE Listed(_, _)
Listed(b, c) ==
    IF b = <<>> THEN FALSE
    ELSE IF Len(b) >= 2 /\ b[2] = "-"
         THEN c \in CharRange(b[1], b[3]) \/ Listed(SubSeq(b, 4, Len(b)), c)
         ELSE b[1] = c \/ Listed(Tail(b), c)

\* the pattern is one class [body] and nothing else
IsOneClass(p) ==
    /\ Len(p) >= 3
    /\ p[1] = "["
    /\ p[Len(p)] = "]"
    /\ \A k \in 2..(Len(p) - 1) : p[k] \notin {"[", "]", "\\"}

ClassBody(p) == SubSeq(p, 2, Len(p) - 1)

ClassNegated(p) == ClassBody(p)[1] = "^"

ClassItems(p) == IF ClassNegated(p) THEN Tail(ClassBody(p)) ELSE ClassBody(p)

\* the matcher of the only consuming transition of the engine of one class
ClassMatcher == regex.engine.states[1].transitions[1].m

C11_ClassPredicate ==
    (IsOneClass(pattern) /\ ClassItems(pattern) # <<>> /\ ItemBody(ClassItems(pattern))) =>
        /\ pc # "panic"
        /\ Compiled =>
              \A c \in Char :
                  matcher_matches(ClassMatcher, c)
                      <=> (Listed(ClassItems(pattern), c) # ClassNegated(pattern))
        /\ pc = "done" =>
              (result <=>
                  \E k \in DOMAIN line :
                      Listed(ClassItems(pattern), line[k]) # ClassNegated(pattern))

\* [^a] compiled and run on the line a: the negated class rejects it
C11_Witness ==
    /\ pc = "done"
    /\ pattern = <<"[", "^", "a", "]">>
    /\ line = <<"a">>
    /\ ~result
    /\ ~matcher_matches(ClassMatcher, "a")
    /\ matcher_matches(ClassMatcher, "z")

(***************************************************************************)
(* Patterns of literals, alternation, grouping and the star, and lines     *)
(* over two letters; with them the patterns and lines of the tests of      *)
(* parser.rs and nfa_regex.rs.                                             *)
(***************************************************************************)
TestPattern == <<"a", "(", "b", "|", "c", ")", "*", "d">>

PrecedencePatterns ==
    SeqsUpTo({"a", "b", "|", "(", ")", "*"}, MaxPatLen)
        \cup { TestPattern,
               <<"a", "b", "|", "c">>,
               <<"a", "|", "b", "c">>,
               <<"a", "|", "b", "*">>,
               <<"a", "b", "*">>,
               <<"(", "a", "b", ")", "*">>,
               <<"(", "a", "|", "b", ")", "*">>,
               <<"(", "a", "|", "b", ")", "a">>,
               <<"a", "(", "b", "|", "a", ")">>,
               <<"a", "*", "b", "|", "a">>,
               <<"a", "|", "b", "|", "a", "b">>,
               <<"a", "(", "b", ")", "*", "a">>,
               <<"(", "a", ")", "(", "b", ")">>,
               <<"(", "(", "a", ")", "|", "b", ")", "+", "a", "?">>,
               <<"a", "b", "+", "|", "b", "a", "?">> }

PrecedenceLines ==
    SeqsUpTo({"a", "b"}, MaxLineLen)
        \cup { <<"a", "b", "c", "c", "b", "d">>, <<"a", "e">> }

InitPrecedence == InitWith(PrecedencePatterns, PrecedenceLines)

SpecPrecedence == InitPrecedence /\ [][Next]_vars

(***************************************************************************)
(* Regular languages, cut at the words of at most MaxLineLen characters.   *)
(***************************************************************************)
LangCat(A, B) ==
    { w \in { u \o v : u \in A, v \in B } : Len(w) <= MaxLineLen }

RECURSIVE LangIter(_, _)
LangIter(A, acc) ==
    LET next == acc \cup LangCat(acc, A)
    IN  IF next = acc THEN acc ELSE LangIter(A, next)

LangStar(A) == LangIter(A, { <<>> })

LangPlus(A) == LangCat(A, LangStar(A))

LangQuestion(A) == A \cup { <<>> }

LangQuantified(q, A) ==
    CASE q \in {"*", "Star"}     -> LangStar(A)
      [] q \in {"+", "Plus"}     -> LangPlus(A)
      [] q \in {"?", "Question"} -> LangQuestion(A)

(***************************************************************************)
(* The language of a pattern read with the precedence quantifier > concat  *)
(* > alternation, parentheses overriding: a recursive descent over         *)
(*   alt ::= cat ( "|" alt )?     cat ::= rep cat?                          *)
(*   rep ::= atom quantifier?     atom ::= letter | "(" alt ")"             *)
(* Each operator returns the language and the position after what it read. *)
(***************************************************************************)
RefFail == [ok |-> FALSE, lang |-> {}, pos |-> 0]

RefLetters == {"a", "b", "c", "d", "e"}

RECURSIVE ref_alt(_, _)
RECURSIVE ref_cat(_, _)

ref_atom(p, i) ==
    IF i > Len(p) THEN RefFail
    ELSE IF p[i] \in RefLetters
         THEN [ok |-> TRUE, lang |-> { <<p[i]>> }, pos |-> i + 1]
         ELSE IF p[i] = "("
              THEN LET r == ref_alt(p, i + 1)
                   IN  IF r.ok /\ r.pos <= Len(p) /\ p[r.pos] = ")"
                       THEN [r EXCEPT !.pos = r.pos + 1]
                       ELSE RefFail
              ELSE RefFail

ref_rep(p, i) ==
    LET a == ref_atom(p, i)
    IN  IF ~a.ok THEN RefFail
        ELSE IF a.pos <= Len(p) /\ p[a.pos] \in {"*", "+", "?"}
             THEN IF a.pos + 1 <= Len(p) /\ p[a.pos + 1] \in {"*", "+", "?"}
                  THEN RefFail
                  ELSE [ok |-> TRUE, lang |-> LangQuantified(p[a.pos], a.lang),
                        pos |-> a.pos + 1]
             ELSE a

ref_cat(p, i) ==
    LET r == ref_rep(p, i)
    IN  IF ~r.ok THEN RefFail
        ELSE IF r.pos <= Len(p) /\ p[r.pos] \notin {"|", ")"}
             THEN LET t == ref_cat(p, r.pos)
                  IN  IF t.ok
                      THEN [ok |-> TRUE, lang |-> LangCat(r.lang, t.lang), pos |-> t.pos]
                      ELSE RefFail
             ELSE r

ref_alt(p, i) ==
    LET r == ref_cat(p, i)
    IN  IF ~r.ok THEN RefFail
        ELSE IF r.pos <= Len(p) /\ p[r.pos] = "|"
             THEN LET t == ref_alt(p, r.pos + 1)
                  IN  IF t.ok
                      THEN [ok |-> TRUE, lang |-> r.lang \cup t.lang, pos |-> t.pos]
                      ELSE RefFail
             ELSE r

\* the pattern is one of those the precedence rule speaks about
WellFormed(p) ==
    LET r == ref_alt(p, 1) IN r.ok /\ r.pos = Len(p) + 1

RefLang(p) == ref_alt(p, 1).lang

(***************************************************************************)
(* A postfix token sequence evaluated as a stack machine over languages:   *)
(* an operand is pushed, a quantifier replaces the top, Concat and Or      *)
(* replace the two topmost.                                                *)
(***************************************************************************)
RECURSIVE eval_postfix(_, _, _)
eval_postfix(toks, i, stack) ==
    IF i > Len(toks)
    THEN IF Len(stack) = 1 THEN [ok |-> TRUE, lang |-> stack[1]]
                           ELSE [ok |-> FALSE, lang |-> {}]
    ELSE
      LET t == toks[i]
          n == Len(stack)
      IN  CASE t.kind = "Literal" ->
                 eval_postfix(toks, i + 1, Append(stack, { t.text }))
            [] IsQuantifier(t) /\ n >= 1 ->
                 eval_postfix(toks, i + 1,
                     Append(SubSeq(stack, 1, n - 1), LangQuantified(t.kind, stack[n])))
            [] t.kind = "Concat" /\ n >= 2 ->
                 eval_postfix(toks, i + 1,
                     Append(SubSeq(stack, 1, n - 2), LangCat(stack[n - 1], stack[n])))
            [] t.kind = "Or" /\ n >= 2 ->
                 eval_postfix(toks, i + 1,
                     Append(SubSeq(stack, 1, n - 2), stack[n - 1] \cup stack[n]))
            [] OTHER -> [ok |-> FALSE, lang |-> {}]

PostfixText(toks) ==
    [k \in DOMAIN toks |->
        CASE toks[k].kind = "Literal"  -> toks[k].text[1]
          [] toks[k].kind = "Concat"   -> "."
          [] toks[k].kind = "Or"       -> "|"
          [] toks[k].kind = "Star"     -> "*"
          [] toks[k].kind = "Plus"     -> "+"
          [] toks[k].kind = "Question" -> "?"
          [] OTHER                     -> "#"]

\* no quantifier of the postfix output is turned into a lazy one by a
\* Question token right after it
NoLazyPair(toks) ==
    \A k \in 1..(Len(toks) - 1) : ~(IsQuantifier(toks[k]) /\ toks[k + 1].kind = "Question")

(***************************************************************************)
(* C12: for every anchor-free pattern of literals, alternation, grouping   *)
(* and at most one quantifier per operand, the output of postfix_generator *)
(* evaluated as a stack machine denotes the language of the pattern read   *)
(* with the precedence quantifier > concat > alternation, parentheses      *)
(* overriding; so does the engine built from it, and a(b|c)*d gives        *)
(* abc|*d.., matches abccbd and does not match ae.                         *)
(***************************************************************************)
C12_PostfixPrecedence ==
    WellFormed(pattern) =>
        /\ pc # "panic"
        /\ pc \in {"create_engine", "matches"} =>
              /\ eval_postfix(postfix, 1, <<>>).ok
              /\ eval_postfix(postfix, 1, <<>>).lang = RefLang(pattern)
        /\ (pc = "matches" /\ NoLazyPair(postfix) /\ Len(line) <= MaxLineLen) =>
              (Accepts(regex.engine, line) <=> line \in RefLang(pattern))
        /\ (pattern = TestPattern /\ pc \in {"create_engine", "matches", "done"}) =>
              PostfixText(postfix) = <<"a", "b", "c", "|", "*", "d", ".", ".">>
        /\ (pattern = TestPattern /\ pc = "done") =>
              /\ line = <<"a", "b", "c", "c", "b", "d">> => result
              /\ line = <<"a", "e">> => ~result

\* a|bc run to the end on the line bb: the postfix output is abc.| and not
\* ab|c., and the line, which has no a and no bc, does not match
C12_Witness ==
    /\ pc = "done"
    /\ pattern = <<"a", "|", "b", "c">>
    /\ PostfixText(postfix) = <<"a", "b", "c", ".", "|">>
    /\ line = <<"b", "b">>
    /\ ~result

(***************************************************************************)
(* Engine::compute step by step: one call on the whole line, from the      *)
(* push of the start configuration to the return.  Each iteration of the   *)
(* while loop is one step; popped is the configuration it popped and       *)
(* pushed_count the number of configurations it pushed.                    *)
(***************************************************************************)
ComputeStart ==
    /\ pc = "matches"
    /\ compute_stack' = <<Config(regex.engine.start_state, 0, <<>>)>>
    /\ pc' = "compute"
    /\ UNCHANGED <<pattern, line, tokens, postfix, regex, result, runs>>
    /\ UNCHANGED <<popped, pushed_count, returned>>

ComputeStep ==
    /\ pc = "compute"
    /\ compute_stack # <<>>
    /\ Len(compute_stack) <= MaxStack
    /\ LET r == compute_step(regex.engine, line, compute_stack)
       IN  /\ popped' = compute_stack[Len(compute_stack)]
           /\ compute_stack' = r.stack
           /\ pushed_count' = Len(r.stack) - (Len(compute_stack) - 1)
           /\ IF r.done
              THEN /\ returned' = r.value
                   /\ pc' = "done"
              ELSE UNCHANGED <<returned, pc>>
    /\ UNCHANGED <<pattern, line, tokens, postfix, regex, result, runs>>

\* the while loop ends with an empty stack: return -1
ComputeReturn ==
    /\ pc = "compute"
    /\ compute_stack = <<>>
    /\ returned' = -1
    /\ pc' = "done"
    /\ UNCHANGED <<pattern, line, tokens, postfix, regex, result, runs>>
    /\ UNCHANGED <<compute_stack, popped, pushed_count>>

NextCompute == Parse \/ PostfixGenerator \/ New \/ ComputeStart \/ ComputeStep \/ ComputeReturn

\* quantifiers on literals, and groups whose engines have epsilon cycles
ComputePatterns ==
    SeqsUpTo({"a", "b", "*", "+", "?"}, MaxPatLen)
        \cup { <<"(", "a", "*", ")", "*">>,
               <<"(", "a", "?", ")", "+">>,
               <<"(", "a", "*", ")", "*", "b">>,
               <<"(", "a", "?", ")", "+", "b">>,
               <<"(", "a", "*", ")", "+", "b">>,
               <<"(", "a", "+", ")", "*", "b">>,
               <<"(", "a", "*", ")", "?", "b">>,
               <<"(", "(", "a", "*", ")", "*", ")", "*", "b">>,
               <<"(", "a", "*", "|", "b", "?", ")", "*", "a">>,
               <<"(", "a", "|", "b", ")", "*", "a", "b">> }

ComputeLines == SeqsUpTo({"a", "b"}, MaxLineLen)

InitCompute == InitWith(ComputePatterns, ComputeLines)

\* a thread that is in compute keeps running: the loop takes its next step
SpecCompute ==
    InitCompute /\ [][NextCompute]_vars /\ WF_vars(ComputeStep \/ ComputeReturn)

\* C13: Engine::compute terminates, returning an index or -1, for every
\* engine the builder produces and every finite window, including the
\* engines with epsilon cycles such as those of (a*)* and (a?)+.
C13_ComputeTerminates == (pc = "compute") ~> (pc = "done")

\* (a*)*b on the line aa: every path through the epsilon cycles is tried and
\* given up, compute returns -1
C13_Witness ==
    /\ pc = "done"
    /\ pattern = <<"(", "a", "*", ")", "*", "b">>
    /\ line = <<"a", "a">>
    /\ returned = -1
    /\ compute_stack = <<>>

\* the memory of a configuration never holds a state twice and the stack
\* stays below MaxStack
ComputeMemoryDistinct ==
    /\ \A k \in DOMAIN compute_stack :
          LET m == compute_stack[k].memory
          IN  \A i, j \in DOMAIN m : i # j => m[i] # m[j]
    /\ Len(compute_stack) < MaxStack

\* the number of characters c at the head of x
RECURSIVE LeadingRun(_, _)
LeadingRun(x, c) ==
    IF x # <<>> /\ x[1] = c THEN 1 + LeadingRun(Tail(x), c) ELSE 0

\* x is some number of characters c followed by a different character
RunThenOther(x, c) == LeadingRun(x, c) < Len(x)

(***************************************************************************)
(* C14: the simulator explores the repeat branch of a quantifier before    *)
(* its exit branch when the quantifier is greedy and the exit branch first *)
(* when it is lazy: for a literal c, compute on the greedy engine of c*    *)
(* over k characters c followed by a different character returns k, and on *)
(* the lazy engine it returns 0.                                           *)
(***************************************************************************)
C14_GreedyRepeatsFirst ==
    \A c \in Literals :
        (pc = "done" /\ pattern = <<c, "*">> /\ RunThenOther(line, c)) =>
            /\ returned = LeadingRun(line, c)
            /\ compute(special_nfa_quantifier(literal_nfa(c), TRUE, "Star"), line) = 0

(***************************************************************************)
(* The expansion of the configuration popped by the last step, as the     *)
(* transitions of its state that are eligible on the line: those whose     *)
(* matcher accepts the character under the cursor (the epsilon ones only,  *)
(* past the end of the line) and, when epsilon, whose target is not in the *)
(* memory of the configuration.                                            *)
(***************************************************************************)
PoppedTransitions ==
    LET k == find_state(regex.engine.states, popped.state)
    IN  IF k = 0 THEN <<>> ELSE regex.engine.states[k].transitions

Eligible(cfg, t) ==
    /\ IF cfg.input_index >= Len(line) THEN is_epsilon(t.m)
       ELSE matcher_matches(t.m, line[cfg.input_index + 1])
    /\ is_epsilon(t.m) => ~InMemory(cfg.memory, t.to)

EligibleIndexes == { k \in DOMAIN PoppedTransitions : Eligible(popped, PoppedTransitions[k]) }

Successor(cfg, t) ==
    IF is_epsilon(t.m) THEN Config(t.to, cfg.input_index, Append(cfg.memory, t.to))
    ELSE Config(t.to, cfg.input_index + 1, <<>>)

Min(S) == CHOOSE x \in S : \A y \in S : x <= y

Max(S) == CHOOSE x \in S : \A y \in S : y <= x

\* the last step expanded a state with several eligible transitions
Branched ==
    /\ pc = "compute"
    /\ popped # NoConfig
    /\ Cardinality(EligibleIndexes) >= 2

TopOfStack == compute_stack[Len(compute_stack)]

(***************************************************************************)
(* C15 as stated: when compute expands a state with several eligible      *)
(* transitions, the configuration of the most recently added of them is    *)
(* the next one popped.                                                    *)
(***************************************************************************)
C15_LastAddedPoppedNext ==
    Branched => TopOfStack = Successor(popped, PoppedTransitions[Max(EligibleIndexes)])

(***************************************************************************)
(* C15, amended: when compute expands a state with several eligible        *)
(* transitions, it pushes one configuration for each of them and the       *)
(* configuration of the earliest added of them is the next one popped; the *)
(* others are below it in insertion order.                                 *)
(***************************************************************************)
C15_FirstAddedPoppedNext ==
    Branched =>
        /\ pushed_count = Cardinality(EligibleIndexes)
        /\ TopOfStack = Successor(popped, PoppedTransitions[Min(EligibleIndexes)])
        /\ \A j \in 1..pushed_count :
              LET k == CHOOSE k \in EligibleIndexes :
                           Cardinality({ i \in EligibleIndexes : i < k }) = j - 1
              IN  compute_stack[Len(compute_stack) - j + 1]
                      = Successor(popped, PoppedTransitions[k])

\* b* on the line ba: the start state of the star has its exit, added first,
\* and its repeat transition; after its expansion the exit is on top
C15_Witness ==
    /\ Branched
    /\ pattern = <<"b", "*">>
    /\ line = <<"b", "a">>
    /\ popped = Config(regex.engine.start_state, 0, <<>>)
    /\ pushed_count = 2
    /\ TopOfStack.state = regex.engine.end_state

(***************************************************************************)
(* Patterns of literals, alternation, grouping and the three quantifiers,  *)
(* lazy-fused or not, for the shape of the engines the builder produces.   *)
(***************************************************************************)
BuildPatterns ==
    SeqsUpTo({"a", "b", "|", "(", ")", "*", "+", "?"}, MaxPatLen)
        \cup { <<"(", "a", "|", "b", ")", "*", "a">>,
               <<"(", "a", "*", ")", "?">>,
               <<"(", "a", "+", ")", "?", "b">>,
               <<"(", "a", "?", ")", "?", "|", "b", "+">>,
               <<"a", "(", "b", "|", "a", "*", ")", "+">>,
               <<"(", "(", "a", "|", "b", ")", "(", "a", "b", ")", ")", "?">> }

BuildLines == SeqsUpTo({"a"}, MaxLineLen)

InitBuild == InitWith(BuildPatterns, BuildLines)

SpecBuild == InitBuild /\ [][Next]_vars

\* the pairs <<state index, transition index>> of the transitions to id
TransitionsTo(engine, id) ==
    { st \in { <<i, k>> : i \in DOMAIN engine.states, k \in 1..(2 * Len(engine.states)) } :
        /\ st[2] \in DOMAIN engine.states[st[1]].transitions
        /\ engine.states[st[1]].transitions[st[2]].to = id }

(***************************************************************************)
(* C16: every engine the builder produces has state ids exactly 0..n-1,    *)
(* the state at index i (from 0) having id i; its start and end ids are    *)
(* among them and every transition targets an existing id; no two states   *)
(* share an id.                                                            *)
(***************************************************************************)
C16_DenseIds ==
    Compiled =>
        LET engine == regex.engine
            n      == Len(engine.states)
        IN  /\ n >= 2
            /\ \A i \in 1..n : engine.states[i].id = i - 1
            /\ \A i, j \in 1..n : i # j => engine.states[i].id # engine.states[j].id
            /\ engine.start_state \in 0..(n - 1)
            /\ engine.end_state \in 0..(n - 1)
            /\ \A i \in 1..n :
                  \A k \in DOMAIN engine.states[i].transitions :
                      engine.states[i].transitions[k].to \in 0..(n - 1)

\* a|b compiled: two literal engines merged, the ids of the second shifted by
\* two, under a new start 4 and a new end 5
C16_Witness ==
    /\ Compiled
    /\ pattern = <<"a", "|", "b">>
    /\ Len(regex.engine.states) = 6
    /\ regex.engine.states[3].id = 2
    /\ regex.engine.states[3].transitions[1].to = 3
    /\ regex.engine.start_state = 4
    /\ regex.engine.end_state = 5

(***************************************************************************)
(* The operation of the builder that produced the final engine: the kind   *)
(* of the last postfix token create_engine acted on, a quantifier followed *)
(* by a Question token standing for the lazy quantifier it builds.         *)
(***************************************************************************)
RECURSIVE last_operation(_, _, _)
last_operation(toks, i, op) ==
    IF i > Len(toks) THEN op
    ELSE IF IsQuantifier(toks[i])
         THEN IF i < Len(toks) /\ toks[i + 1].kind = "Question"
              THEN last_operation(toks, i + 2, lazy_quantifier(toks[i].kind))
              ELSE last_operation(toks, i + 1, toks[i].kind)
         ELSE IF IsAnchor(toks[i])
              THEN last_operation(toks, i + 1, op)
              ELSE last_operation(toks, i + 1, toks[i].kind)

EndHasNoTransition(engine) ==
    \A i \in DOMAIN engine.states :
        engine.states[i].id = engine.end_state => engine.states[i].transitions = <<>>

(***************************************************************************)
(* C17 as stated: in every engine the builder produces no transition       *)
(* targets the start state, and the end state has no outgoing transition.  *)
(***************************************************************************)
C17_ThompsonShape ==
    Compiled =>
        /\ TransitionsTo(regex.engine, regex.engine.start_state) = {}
        /\ EndHasNoTransition(regex.engine)

(***************************************************************************)
(* C17, amended: in every engine the builder produces the end state has no *)
(* outgoing transition; no transition targets the start state when the     *)
(* last operation was a literal, a Question, a Concat or an Or, and        *)
(* exactly one does when it was a Star or a Plus: the repeat transition,   *)
(* an epsilon from the end state of the quantified operand.                *)
(***************************************************************************)
C17_ShapeWithRepeat ==
    Compiled =>
        LET engine == regex.engine
            preds  == TransitionsTo(engine, engine.start_state)
        IN  /\ EndHasNoTransition(engine)
            /\ IF last_operation(postfix, 1, "None") \in {"Star", "Plus"}
               THEN /\ Cardinality(preds) = 1
                    /\ \A st \in preds :
                          /\ is_epsilon(engine.states[st[1]].transitions[st[2]].m)
                          /\ engine.states[st[1]].id \notin
                                 {engine.start_state, engine.end_state}
               ELSE preds = {}

\* a* compiled: the literal engine 0 -> 1 wrapped by ns = 2 and ne = 3, and
\* the repeat transition from 1 back to the start state 2
C17_Witness ==
    /\ Compiled
    /\ pattern = <<"a", "*">>
    /\ regex.engine.start_state = 2
    /\ TransitionsTo(regex.engine, 2) = { <<2, 2>> }
    /\ EndHasNoTransition(regex.engine)

(***************************************************************************)
(* C18: compute on a window w returns a non-negative index iff some prefix *)
(* of w is accepted by the engine under the standard NFA semantics; the    *)
(* index k it returns satisfies 0 <= k <= |w| and the prefix of length k   *)
(* is accepted; it returns -1 only when no prefix is accepted.             *)
(***************************************************************************)
C18_ComputeSound ==
    pc = "done" =>
        /\ returned >= 0 <=> \E k \in 0..Len(line) : Accepts(regex.engine, Prefix(line, k))
        /\ returned >= 0 =>
              /\ returned <= Len(line)
              /\ Accepts(regex.engine, Prefix(line, returned))
        /\ returned < 0 => returned = -1

\* a+b on aab: the plus is entered a second time after the first a, the
\* prefix aab is accepted and compute returns 3
C18_Witness ==
    /\ pc = "done"
    /\ pattern = <<"a", "+", "b">>
    /\ line = <<"a", "a", "b">>
    /\ returned = 3
    /\ Accepts(regex.engine, line)
    /\ ~Accepts(regex.engine, <<"a", "a">>)

(***************************************************************************)
(* Patterns that are one class [body] whose body holds operators, dots and *)
(* backslashes.                                                            *)
(***************************************************************************)
VerbatimBodies == SeqsUpTo({"a", "+", "|", "(", "$", ".", "\\"}, MaxBodyLen)

VerbatimPatterns == { <<"[">> \o body \o <<"]">> : body \in VerbatimBodies }

InitVerbatim == InitWith(VerbatimPatterns, ClassLines)

SpecVerbatim == InitVerbatim /\ [][Next]_vars

\* every backslash of the body has a character of the body after it
RECURSIVE EscapesPaired(_)
EscapesPaired(body) ==
    IF body = <<>> THEN TRUE
    ELSE IF body[1] = "\\"
         THEN Len(body) >= 2 /\ EscapesPaired(SubSeq(body, 3, Len(body)))
         ELSE EscapesPaired(Tail(body))

(***************************************************************************)
(* C19: between a [ and the next ] the lexer emits no token other than the *)
(* one ComplexLiteral that holds every character in between, unchanged and *)
(* in order, the operators, the dot, the anchors and a backslash with the  *)
(* character after it included.                                            *)
(***************************************************************************)
C19_ClassCopiedVerbatim ==
    (/\ pc # "parse"
     /\ Len(pattern) >= 3
     /\ pattern[1] = "["
     /\ pattern[Len(pattern)] = "]"
     /\ \A k \in 2..(Len(pattern) - 1) : pattern[k] \notin {"[", "]"}
     /\ EscapesPaired(ClassBody(pattern)))
        => tokens = <<Token("ComplexLiteral", pattern)>>

\* b without the hyphen at its start and the hyphen at its end, if any
StripEdgeHyphens(b) ==
    LET front == IF b # <<>> /\ b[1] = "-" THEN Tail(b) ELSE b
    IN  IF front # <<>> /\ front[Len(front)] = "-"
        THEN SubSeq(front, 1, Len(front) - 1) ELSE front

\* b has a hyphen at its very start or its very end and no other hyphen
EdgeHyphenBody(b) ==
    /\ b # <<>>
    /\ b[1] = "-" \/ b[Len(b)] = "-"
    /\ \A k \in DOMAIN StripEdgeHyphens(b) : StripEdgeHyphens(b)[k] # "-"

(***************************************************************************)
(* C20: a hyphen at the very start or the very end of a class body is a    *)
(* literal hyphen and creates no range: [-a] and [a-] accept exactly the   *)
(* hyphen and a, [^-] accepts exactly the characters other than the        *)
(* hyphen.                                                                 *)
(***************************************************************************)
C20_EdgeHyphenIsLiteral ==
    (Compiled /\ IsOneClass(pattern) /\ EdgeHyphenBody(ClassItems(pattern))) =>
        \A c \in Char :
            matcher_matches(ClassMatcher, c)
                <=> ((c = "-" \/ Occurs(c, StripEdgeHyphens(ClassItems(pattern))))
                        # ClassNegated(pattern))

(***************************************************************************)
(* Patterns that are one group ending in a quantifier, followed by ?.      *)
(***************************************************************************)
OptionalGroupPatterns ==
    { <<"(">> \o body \o <<q, ")", "?">> :
        body \in SeqsUpTo({"a", "b"}, MaxPatLen) \ { <<>> },
        q \in {"*", "+", "?"} }

InitOptionalGroup == InitWith(OptionalGroupPatterns, Lines)

SpecOptionalGroup == InitOptionalGroup /\ [][Next]_vars

\* C21: a ? applied to a parenthesised group makes the group optional even
\* when the group itself ends in a quantifier: (a+)? and (a*)? match every
\* line, the lines without an a included; the ? after the closing
\* parenthesis is not fused with the quantifier inside the group.
C21_OptionalGroupMatchesAll ==
    /\ pc # "panic"
    /\ pc = "done" => result

(***************************************************************************)
(* Patterns of dots, one letter and anchors, run on lines that hold        *)
(* characters of one and of two bytes.                                     *)
(***************************************************************************)
DotPatterns == SeqsUpTo({".", "a", "^", "$"}, MaxPatLen)

InitDot == InitWith(DotPatterns, Lines)

SpecDot == InitDot /\ [][Next]_vars

\* x with each two-byte character replaced by the one-byte character b,
\* which no pattern of DotPatterns tells apart from it
OneByte(x) == [k \in DOMAIN x |-> IF len_utf8(x[k]) > 1 THEN "b" ELSE x[k]]

(***************************************************************************)
(* C22: the result of matches depends only on the characters of the line,  *)
(* not on their UTF-8 byte lengths: the offsets tried, the end offset of   *)
(* the match and the length of the line used by the end-anchor test are    *)
(* measured in one unit, so .$ matches every line of one character,        *)
(* whether the character takes one byte or several.                        *)
(***************************************************************************)
C22_ByteLengthIrrelevant ==
    pc = "done" =>
        /\ result = matches(regex, OneByte(line)).result
        /\ (pattern = <<".", "$">> /\ Len(line) = 1) => result

====
